---------------------------- MODULE Spec2Model ----------------------------
(***************************************************************************)
(* custom-recognition: the filename parser, the two rule synthesizers and  *)
(* the main pipelines of the single-file program and of the directory      *)
(* program.                                                                *)
(*                                                                         *)
(* A Go string is a sequence of bytes.  A byte is a one-character string   *)
(* for ASCII ("S", "0", ".") and "xHH" for the byte 0xHH.  Byte offsets    *)
(* are Go's (0-based); Slice(s, lo, hi) is s[lo:hi].                        *)
(***************************************************************************)
EXTENDS Integers, Sequences, FiniteSets, TLC

VARIABLES
    program,              \* "lib" | "single" | "dir": which entry point runs
    pc,                   \* position in main (or in the library harness)
    fileName,             \* single: the name typed; dir: filepath.Base(files[0])
    files,                \* dir: the basenames findMatchingFiles returned
    fixedTitle,           \* dir: the fixed part of the title typed
    parsed,               \* parseFileName(fileName) as returned (never changed)
    fileInfo,             \* main's fileInfo, filled in by prompts and defaults
    mediaType,            \* "" | "movie" | "tv"
    tmdbID,               \* the id typed
    apiKey,               \* the key from the config file or typed
    seasonOffset,         \* single: main's seasonOffset
    manuallyInputSeason,  \* single: main's manuallyInputSeason
    prompted,             \* the fields the user was prompted for
    typed,                \* what the user typed at each of those prompts
    requests,             \* the number of client.Do calls
    movie,                \* the decoded MovieResponse
    printed,              \* the parts of the report written to stdout, in order
    out,                  \* the strings printed: normalized name, rules
    exitCode,             \* -1 while running, else the exit status
    attempts              \* the rejected entries in the prompt loops so far

vars == <<program, pc, fileName, files, fixedTitle, parsed, fileInfo, mediaType,
          tmdbID, apiKey, seasonOffset, manuallyInputSeason, prompted, typed,
          requests, movie, printed, out, exitCode, attempts>>

-----------------------------------------------------------------------------
(* Bounds of the model *)

\* the number of vocabulary pieces a library-harness filename is built from
MaxPieces == 3
\* the rejected entries a prompt loop takes before the user types a valid one
MaxAttempts == 2
\* the number of files a directory scan returns
MaxFiles == 2

-----------------------------------------------------------------------------
(* Bytes, runes and the strings package *)

Digit == {"0", "1", "2", "3", "4", "5", "6", "7", "8", "9"}

UpperSeq == <<"A", "B", "C", "D", "E", "F", "G", "H", "I", "J", "K", "L", "M",
              "N", "O", "P", "Q", "R", "S", "T", "U", "V", "W", "X", "Y", "Z">>

LowerSeq == <<"a", "b", "c", "d", "e", "f", "g", "h", "i", "j", "k", "l", "m",
              "n", "o", "p", "q", "r", "s", "t", "u", "v", "w", "x", "y", "z">>

UpperSet == {UpperSeq[i] : i \in 1..26}

LowerSet == {LowerSeq[i] : i \in 1..26}

\* the bytes >= 0x80 of the model's alphabet: the UTF-8 encodings of
\* U+7B2C, U+5B63, U+96C6 (the CJK season/episode markers), of U+023A and its
\* lower case U+2C65, and of U+FFFD
Lead2 == {"xC8"}

Lead3 == {"xE7", "xE5", "xE9", "xE2", "xEF"}

Cont == {"xAC", "xAD", "xA3", "x9B", "x86", "xBA", "xB1", "xA5", "xBF", "xBD"}

NonASCII == Lead2 \cup Lead3 \cup Cont

Di == <<"xE7", "xAC", "xAC">>

Ji == <<"xE5", "xAD", "xA3">>

Jji == <<"xE9", "x9B", "x86">>

UpperAStroke == <<"xC8", "xBA">>

LowerAStroke == <<"xE2", "xB1", "xA5">>

RuneError == <<"xEF", "xBF", "xBD">>

\* F(v), with v evaluated once: TLC evaluates the member of {v} when it builds
\* the set, and an operator's argument each time the operator uses it
Bind(v, F(_)) == CHOOSE r \in {F(x) : x \in {v}} : TRUE

Min(S) == CHOOSE i \in S : \A j \in S : i <= j

\* s[lo:hi]
Slice(s, lo, hi) == SubSeq(s, lo + 1, hi)

\* strings.HasPrefix(s[i:], p)
HasAt(s, i, p) == /\ i >= 0
                  /\ i + Len(p) <= Len(s)
                  /\ Slice(s, i, i + Len(p)) = p

\* the width of the rune utf8.DecodeRuneInString(s[i:]) returns (1 for an
\* invalid byte)
RuneLen(s, i) ==
    IF s[i + 1] \in Lead2 /\ i + 2 <= Len(s) /\ s[i + 2] \in Cont THEN 2
    ELSE IF /\ s[i + 1] \in Lead3
            /\ i + 3 <= Len(s)
            /\ s[i + 2] \in Cont
            /\ s[i + 3] \in Cont THEN 3
    ELSE 1

\* strings.Index: the byte offset of the first occurrence, -1 when none
Index(s, sub) ==
    Bind(<<s, sub>>, LAMBDA a :
      Bind({i \in 0..Len(a[1]) : HasAt(a[1], i, a[2])}, LAMBDA hits :
        IF hits = {} THEN -1 ELSE Min(hits)))

ToLowerByte(c) ==
    IF c \in UpperSet THEN LowerSeq[CHOOSE i \in 1..26 : UpperSeq[i] = c] ELSE c

ToUpperByte(c) ==
    IF c \in LowerSet THEN UpperSeq[CHOOSE i \in 1..26 : LowerSeq[i] = c] ELSE c

\* strings.Map(unicode.ToLower, s[i:]): rune by rune; an invalid byte comes out
\* as U+FFFD (three bytes), U+023A as U+2C65 (two bytes to three)
RECURSIVE MapLower(_, _)
MapLower(s, i) ==
    IF i >= Len(s) THEN <<>>
    ELSE Bind(RuneLen(s, i), LAMBDA n :
           (IF n = 1
            THEN IF s[i + 1] \in NonASCII THEN RuneError
                 ELSE <<ToLowerByte(s[i + 1])>>
            ELSE IF Slice(s, i, i + n) = UpperAStroke THEN LowerAStroke
                 ELSE Slice(s, i, i + n))
           \o MapLower(s, i + n))

RECURSIVE MapUpper(_, _)
MapUpper(s, i) ==
    IF i >= Len(s) THEN <<>>
    ELSE Bind(RuneLen(s, i), LAMBDA n :
           (IF n = 1
            THEN IF s[i + 1] \in NonASCII THEN RuneError
                 ELSE <<ToUpperByte(s[i + 1])>>
            ELSE IF Slice(s, i, i + n) = LowerAStroke THEN UpperAStroke
                 ELSE Slice(s, i, i + n))
           \o MapUpper(s, i + n))

\* strings.ToLower: the ASCII fast path, else Map
ToLower(str) ==
    Bind(str, LAMBDA s :
      IF \A i \in 1..Len(s) : s[i] \notin NonASCII
      THEN [i \in 1..Len(s) |-> ToLowerByte(s[i])]
      ELSE MapLower(s, 0))

\* strings.ToUpper
ToUpper(str) ==
    Bind(str, LAMBDA s :
      IF \A i \in 1..Len(s) : s[i] \notin NonASCII
      THEN [i \in 1..Len(s) |-> ToUpperByte(s[i])]
      ELSE MapUpper(s, 0))

\* strings.ReplaceAll(s[i:], old, new) for a non-empty old: the non-overlapping
\* occurrences, left to right
RECURSIVE ReplaceFrom(_, _, _, _)
ReplaceFrom(s, i, old, new) ==
    IF i >= Len(s) THEN <<>>
    ELSE IF HasAt(s, i, old) THEN new \o ReplaceFrom(s, i + Len(old), old, new)
    ELSE <<s[i + 1]>> \o ReplaceFrom(s, i + 1, old, new)

\* strings.ReplaceAll(s[i:], "", new): new before every rune and at the end
RECURSIVE InsertFrom(_, _, _)
InsertFrom(s, i, new) ==
    IF i >= Len(s) THEN new
    ELSE Bind(RuneLen(s, i), LAMBDA n :
           new \o Slice(s, i, i + n) \o InsertFrom(s, i + n, new))

ReplaceAll(s, old, new) ==
    Bind(<<s, old, new>>, LAMBDA a :
      IF a[2] = <<>> THEN InsertFrom(a[1], 0, a[3])
      ELSE ReplaceFrom(a[1], 0, a[2], a[3]))

RECURSIVE Join(_, _)
\* strings.Join(parts, sep)
Join(parts, sep) ==
    IF parts = <<>> THEN <<>>
    ELSE IF Len(parts) = 1 THEN parts[1]
    ELSE Bind(Tail(parts), LAMBDA rest : parts[1] \o sep \o Join(rest, sep))

\* the bytes regexp.QuoteMeta escapes
Special == {"\\", ".", "+", "*", "?", "(", ")", "|", "[", "]", "{", "}", "^", "$"}

RECURSIVE QuoteFrom(_, _)
\* regexp.QuoteMeta(s[i:])
QuoteFrom(s, i) ==
    IF i >= Len(s) THEN <<>>
    ELSE (IF s[i + 1] \in Special THEN <<"\\", s[i + 1]>> ELSE <<s[i + 1]>>)
         \o QuoteFrom(s, i + 1)

\* regexp.QuoteMeta
QuoteMeta(str) == Bind(str, LAMBDA s : QuoteFrom(s, 0))

-----------------------------------------------------------------------------
(* The regular expressions of parseFileName, compiled by hand.  Go's regexp *)
(* returns the leftmost match and, among the matches starting there, the    *)
(* one a backtracking search finds first (greedy \d{1,2}, greedy .?, lazy   *)
(* .*?).  \d, \s and \b are ASCII classes.                                  *)

NoMatch == [ok |-> FALSE, start |-> 0, end |-> 0, g1 |-> <<>>, g2 |-> <<>>]

Matched(s, i, e, a1, b1, a2, b2) ==
    [ok |-> TRUE, start |-> i, end |-> e,
     g1 |-> Slice(s, a1, b1), g2 |-> Slice(s, a2, b2)]

ByteAt(s, i) == IF i >= 0 /\ i < Len(s) THEN s[i + 1] ELSE ""

\* the length of what \d{1,2} takes at offset i: 0, 1 or 2
DigitRun(s, i) ==
    IF ByteAt(s, i) \in Digit
    THEN IF ByteAt(s, i + 1) \in Digit THEN 2 ELSE 1
    ELSE 0

\* [\t\n\f\r ]
Space == {" ", "\t", "\n", "\f", "\r"}

RECURSIVE SkipSpace(_, _)
\* the offset after \s* at offset i
SkipSpace(s, i) == IF ByteAt(s, i) \in Space THEN SkipSpace(s, i + 1) ELSE i

WordChar == Digit \cup UpperSet \cup LowerSet \cup {"_"}

\* the leftmost offset at which At(s, _) matches
FindFirst(At(_, _), s) ==
    Bind({i \in 0..(Len(s) - 1) : At(s, i).ok}, LAMBDA hits :
      IF hits = {} THEN NoMatch ELSE At(s, Min(hits)))

\* [Ss](\d{1,2})[Ee](\d{1,2})
SxExAt(s, i) ==
    LET n == DigitRun(s, i + 1)
        e == i + 1 + n
        m == DigitRun(s, e + 1)
    IN  IF /\ ByteAt(s, i) \in {"S", "s"}
           /\ n >= 1
           /\ ByteAt(s, e) \in {"E", "e"}
           /\ m >= 1
        THEN Matched(s, i, e + 1 + m, i + 1, e, e + 1, e + 1 + m)
        ELSE NoMatch

\* 第(\d{1,2})集 at offset q, as the tail of the season+episode rule
DiJjiEnd(s, q) ==
    LET m == DigitRun(s, q + 3)
    IN  IF HasAt(s, q, Di) /\ m >= 1 /\ HasAt(s, q + 3 + m, Jji)
        THEN q + 3 + m + 3
        ELSE -1

\* 第(\d{1,2})季.?第(\d{1,2})集
CjkSeasonAt(s, i) ==
    LET n == DigitRun(s, i + 3)
        p == i + 3 + n + 3
        \* .? is greedy: one rune (not a newline) first, then none
        q == IF p < Len(s) /\ ByteAt(s, p) # "\n" /\ DiJjiEnd(s, p + RuneLen(s, p)) >= 0
             THEN p + RuneLen(s, p)
             ELSE p
        e == DiJjiEnd(s, q)
    IN  IF HasAt(s, i, Di) /\ n >= 1 /\ HasAt(s, i + 3 + n, Ji) /\ e >= 0
        THEN Matched(s, i, e, i + 3, i + 3 + n, q + 3, e - 3)
        ELSE NoMatch

SeasonWord == <<"S", "e", "a", "s", "o", "n">>

EpisodeWord == <<"E", "p", "i", "s", "o", "d", "e">>

\* Season\s*(\d{1,2}).*?Episode\s*(\d{1,2})
SeasonWordAt(s, i) ==
    LET a == SkipSpace(s, i + 6)
        n == DigitRun(s, a)
        b == a + n
        \* .*? is lazy: the first "Episode\s*\d" with no newline before it
        js == {j \in b..Len(s) :
                 /\ HasAt(s, j, EpisodeWord)
                 /\ DigitRun(s, SkipSpace(s, j + 7)) >= 1
                 /\ \A k \in b..(j - 1) : ByteAt(s, k) # "\n"}
        c == SkipSpace(s, Min(js) + 7)
    IN  IF HasAt(s, i, SeasonWord) /\ n >= 1 /\ js # {}
        THEN Matched(s, i, c + DigitRun(s, c), a, b, c, c + DigitRun(s, c))
        ELSE NoMatch

\* [Ee](\d{1,2})[^0-9]
ENumAt(s, i) ==
    LET n == DigitRun(s, i + 1)
        p == i + 1 + n
    IN  IF /\ ByteAt(s, i) \in {"E", "e"}
           /\ n >= 1
           /\ p < Len(s)
           /\ ByteAt(s, p) \notin Digit
        THEN Matched(s, i, p + RuneLen(s, p), i + 1, p, 0, 0)
        ELSE NoMatch

\* 第(\d{1,2})集
CjkEpisodeAt(s, i) ==
    LET e == DiJjiEnd(s, i)
    IN  IF e >= 0 THEN Matched(s, i, e, i + 3, e - 3, 0, 0) ELSE NoMatch

\* lit\.?(\d{1,2}) with a first byte in `first`, the rest of the literal `rest`
WordDotNumAt(s, i, first, rest, dot) ==
    LET a == i + 1 + Len(rest)
        b == IF dot /\ ByteAt(s, a) = "." THEN a + 1 ELSE a
        n == DigitRun(s, b)
    IN  IF ByteAt(s, i) \in first /\ HasAt(s, i + 1, rest) /\ n >= 1
        THEN Matched(s, i, b + n, b, b + n, 0, 0)
        ELSE NoMatch

\* [Ee]p\.?(\d{1,2})
EpDotAt(s, i) == WordDotNumAt(s, i, {"E", "e"}, <<"p">>, TRUE)

\* [Ee]pisode\.?(\d{1,2})
EpisodeDotAt(s, i) == WordDotNumAt(s, i, {"E", "e"}, Tail(EpisodeWord), TRUE)

\* EP(\d{1,2})
UpperEPAt(s, i) == WordDotNumAt(s, i, {"E"}, <<"P">>, FALSE)

\* Ep(\d{1,2})
EpAt(s, i) == WordDotNumAt(s, i, {"E"}, <<"p">>, FALSE)

\* the alternatives of formatRegex, in its order, the last byte's class apart
FormatAlternatives ==
    << <<<<"1", "0", "8", "0">>, {"p", "P"}>>,
       <<<<"7", "2", "0">>, {"p", "P"}>>,
       <<<<"2", "1", "6", "0">>, {"p", "P"}>>,
       <<<<"4">>, {"k", "K"}>>,
       <<<<"8">>, {"k", "K"}>>,
       <<<<"4", "8", "0">>, {"p", "P"}>>,
       <<<<"H", "D">>, {"R"}>>,
       <<<<"H", "E", "V">>, {"C"}>>,
       <<<<"H", "2", "6">>, {"5"}>> >>

\* alternative k of formatRegex matches s at offset i, \b on both sides
FormatAltAt(s, i, k) ==
    LET lit == FormatAlternatives[k][1]
        e == i + Len(lit) + 1
    IN  /\ HasAt(s, i, lit)
        /\ ByteAt(s, e - 1) \in FormatAlternatives[k][2]
        /\ ByteAt(s, i - 1) \notin WordChar
        /\ ByteAt(s, e) \notin WordChar

\* the end offset of formatRegex's match at offset i, -1 when none
FormatEndAt(s, i) ==
    LET ks == {k \in 1..Len(FormatAlternatives) : FormatAltAt(s, i, k)}
    IN  IF ks = {} THEN -1
        ELSE i + Len(FormatAlternatives[CHOOSE k \in ks : \A l \in ks : k <= l][1]) + 1

RECURSIVE FindAllFormats(_, _)
\* formatRegex.FindAllString(s[i:], -1), with the context before i kept
FindAllFormats(s, i) ==
    IF i >= Len(s) THEN <<>>
    ELSE Bind(FormatEndAt(s, i), LAMBDA e :
           IF e >= 0 THEN <<Slice(s, i, e)>> \o FindAllFormats(s, e)
           ELSE FindAllFormats(s, i + 1))

-----------------------------------------------------------------------------
(* parseFileName *)

\* ensureTwoDigits without the padding
ensureTwoDigitsAsIs(num) == num

ensureTwoDigits(num) == IF Len(num) = 1 THEN <<"0">> \o num ELSE num

HEVC == <<"H", "E", "V", "C">>

H265 == <<"H", "2", "6", "5">>

\* the loop of lines 80-86: upper-case each match, skip the encodings
KeepFormats(matches) ==
    SelectSeq([i \in 1..Len(matches) |-> ToUpper(matches[i])],
              LAMBDA format : ~(format = HEVC \/ format = H265))

\* lines 77-88
VideoFormatOf(name) ==
    Bind(FindAllFormats(name, 0), LAMBDA matches :
      IF Len(matches) > 0 THEN Join(KeepFormats(matches), <<".">>) ELSE <<>>)

\* the season+episode rules tried from the last one back
SeasonEpisodeRuleLastFirst(name) ==
    IF FindFirst(SeasonWordAt, name).ok THEN 3
    ELSE IF FindFirst(CjkSeasonAt, name).ok THEN 2
    ELSE IF FindFirst(SxExAt, name).ok THEN 1
    ELSE 0

\* the first of seasonEpisodePatterns that matches, 0 when none
SeasonEpisodeRule(name) ==
    IF FindFirst(SxExAt, name).ok THEN 1
    ELSE IF FindFirst(CjkSeasonAt, name).ok THEN 2
    ELSE IF FindFirst(SeasonWordAt, name).ok THEN 3
    ELSE 0

SeasonEpisodeMatch(name, k) ==
    CASE k = 1 -> FindFirst(SxExAt, name)
      [] k = 2 -> FindFirst(CjkSeasonAt, name)
      [] k = 3 -> FindFirst(SeasonWordAt, name)
      [] OTHER -> NoMatch

\* the first of episodeOnlyPatterns that matches, 0 when none
EpisodeOnlyRule(name) ==
    IF FindFirst(ENumAt, name).ok THEN 1
    ELSE IF FindFirst(CjkEpisodeAt, name).ok THEN 2
    ELSE IF FindFirst(EpDotAt, name).ok THEN 3
    ELSE IF FindFirst(EpisodeDotAt, name).ok THEN 4
    ELSE IF FindFirst(UpperEPAt, name).ok THEN 5
    ELSE IF FindFirst(EpAt, name).ok THEN 6
    ELSE 0

EpisodeOnlyMatch(name, k) ==
    CASE k = 1 -> FindFirst(ENumAt, name)
      [] k = 2 -> FindFirst(CjkEpisodeAt, name)
      [] k = 3 -> FindFirst(EpDotAt, name)
      [] k = 4 -> FindFirst(EpisodeDotAt, name)
      [] k = 5 -> FindFirst(UpperEPAt, name)
      [] k = 6 -> FindFirst(EpAt, name)
      [] OTHER -> NoMatch

EmptyInfo == [FullMatch |-> <<>>, Season |-> <<>>, Episode |-> <<>>,
              VideoFormat |-> <<>>]

\* lines 105-127: the season, the episode and the span of the first rule that
\* matches
SeasonEpisodeOf(name) ==
    Bind(SeasonEpisodeMatch(name, SeasonEpisodeRule(name)), LAMBDA m :
      IF m.ok
      THEN [FullMatch |-> Slice(name, m.start, m.end),
            Season |-> ensureTwoDigits(m.g1),
            Episode |-> ensureTwoDigits(m.g2),
            VideoFormat |-> <<>>]
      ELSE Bind(EpisodeOnlyMatch(name, EpisodeOnlyRule(name)), LAMBDA m1 :
             IF m1.ok
             THEN [FullMatch |-> Slice(name, m1.start, m1.end),
                   Season |-> <<"0", "1">>,
                   Episode |-> ensureTwoDigits(m1.g1),
                   VideoFormat |-> <<>>]
             ELSE EmptyInfo))

parseFileName(name) ==
    Bind(SeasonEpisodeOf(name), LAMBDA info :
      [info EXCEPT !.VideoFormat = VideoFormatOf(name)])

-----------------------------------------------------------------------------
(* strconv and fmt *)

DigitSeq == <<"0", "1", "2", "3", "4", "5", "6", "7", "8", "9">>

RECURSIVE Itoa(_)
\* strconv.Itoa, and fmt's %d
Itoa(n) ==
    IF n < 0 THEN <<"-">> \o Itoa(0 - n)
    ELSE IF n < 10 THEN <<DigitSeq[n + 1]>>
    ELSE Itoa(n \div 10) \o <<DigitSeq[(n % 10) + 1]>>

DigitValue(c) == CHOOSE k \in 0..9 : DigitSeq[k + 1] = c

RECURSIVE DecimalPrefix(_, _)
\* the value of the decimal digits ds[:n]
DecimalPrefix(ds, n) ==
    IF n = 0 THEN 0 ELSE 10 * DecimalPrefix(ds, n - 1) + DigitValue(ds[n])

DecimalValue(digits) == Bind(digits, LAMBDA ds : DecimalPrefix(ds, Len(ds)))

\* strconv.Atoi: an optional sign and decimal digits; on a syntax error the
\* value is 0 (the entries the model types are far from the 64-bit range)
Atoi(str) ==
    Bind(IF str # <<>> /\ str[1] \in {"+", "-"} THEN Tail(str) ELSE str, LAMBDA ds :
      IF ds # <<>> /\ \A i \in 1..Len(ds) : ds[i] \in Digit
      THEN [err |-> FALSE,
            val |-> IF str[1] = "-" THEN 0 - DecimalValue(ds) ELSE DecimalValue(ds)]
      ELSE [err |-> TRUE, val |-> 0])

-----------------------------------------------------------------------------
(* The rule synthesizers *)

\* (\d{1,2})
CaptureGroup == <<"(", "\\", "d", "{", "1", ",", "2", "}", ")">>

\* {tmdbid=%d;type=movie} and {tmdbid=%d;type=tv}
TmdbTag(id, kind) ==
    <<"{", "t", "m", "d", "b", "i", "d", "=">> \o Itoa(id)
    \o <<";", "t", "y", "p", "e", "=">> \o kind \o <<"}">>

\* {[tmdbid=%d;type=...]}, the directory program's tag
TmdbTagDir(id, kind) ==
    <<"{", "[", "t", "m", "d", "b", "i", "d", "=">> \o Itoa(id)
    \o <<";", "t", "y", "p", "e", "=">> \o kind \o <<"]", "}">>

KindMovie == <<"m", "o", "v", "i", "e">>

KindTV == <<"t", "v">>

NoRule == [finalName |-> <<>>, pattern |-> <<>>, replace |-> <<>>]

\* the quality segment of showRegexRules' templates (both programs)
QualitySegment(info) == ToLower(info.VideoFormat)

\* the find pattern of the single-file program's TV rule
\* lines 157-161: the escaped span with the season (when it is captured) and
\* then the episode replaced by a group
SeasonEpisodePattern(info, offset) ==
    Bind(QuoteMeta(info.FullMatch), LAMBDA quoted :
      Bind(IF offset = 0 /\ info.Season # <<"0", "1">>
           THEN ReplaceAll(quoted, info.Season, CaptureGroup)
           ELSE quoted,
           LAMBDA withSeason : ReplaceAll(withSeason, info.Episode, CaptureGroup)))

\* lines 155-163: the find pattern of the single-file program's TV rule
TVPattern(originalName, info, offset) ==
    IF info.FullMatch # <<>>
    THEN ReplaceAll(QuoteMeta(originalName), QuoteMeta(info.FullMatch),
                    SeasonEpisodePattern(info, offset))
    ELSE QuoteMeta(originalName)

\* the replace template of the single-file program's TV rule
TVReplace(title, year, info, id, offset) ==
    IF offset = 0 /\ info.Season # <<"0", "1">>
    THEN title \o <<".">> \o year \o <<".", "S", "\\", "1", "E", "\\", "2", ".">>
         \o QualitySegment(info) \o <<".">> \o TmdbTag(id, KindTV)
    ELSE title \o <<".">> \o year \o <<".", "S">> \o info.Season
         \o <<"E", "\\", "1", ".">>
         \o QualitySegment(info) \o <<".">> \o TmdbTag(id, KindTV)

\* showRegexRules of the single-file program: what it prints
showRegexRules(originalName, title, year, info, kind, id, offset) ==
    IF kind = "movie"
    THEN [finalName |-> title \o <<".">> \o year \o <<".">> \o QualitySegment(info)
                        \o <<".">> \o TmdbTag(id, KindMovie),
          pattern   |-> QuoteMeta(originalName),
          replace   |-> title \o <<".">> \o year \o <<".">> \o QualitySegment(info)
                        \o <<".">> \o TmdbTag(id, KindMovie)]
    ELSE [finalName |-> title \o <<".">> \o year \o <<".", "S">> \o info.Season
                        \o <<"E">> \o info.Episode \o <<".">>
                        \o QualitySegment(info) \o <<".">> \o TmdbTag(id, KindTV),
          pattern   |-> TVPattern(originalName, info, offset),
          replace   |-> TVReplace(title, year, info, id, offset)]

\* \.?.*?[Ss](\d{1,2})[Ee](\d{1,2})\.?.*?[0-9]+[pPkK]\.?.*
DirPatternTail ==
    <<"\\", ".", "?", ".", "*", "?", "[", "S", "s", "]">> \o CaptureGroup
    \o <<"[", "E", "e", "]">> \o CaptureGroup
    \o <<"\\", ".", "?", ".", "*", "?", "[", "0", "-", "9", "]", "+",
         "[", "p", "P", "k", "K", "]", "\\", ".", "?", ".", "*">>

\* showRegexRules of the directory program: what it prints
showRegexRulesDir(originalName, title0, title, year, info, kind, id) ==
    IF kind = "movie"
    THEN [finalName |-> title \o <<".">> \o year \o <<".">> \o QualitySegment(info)
                        \o <<".">> \o TmdbTagDir(id, KindMovie),
          pattern   |-> QuoteMeta(originalName),
          replace   |-> title \o <<".">> \o year \o <<".">> \o QualitySegment(info)
                        \o <<".">> \o TmdbTagDir(id, KindMovie)]
    ELSE [finalName |-> title \o <<".">> \o year \o <<".", "S">> \o info.Season
                        \o <<"E">> \o info.Episode \o <<".">>
                        \o QualitySegment(info) \o <<".">> \o TmdbTagDir(id, KindTV),
          pattern   |-> QuoteMeta(title0) \o DirPatternTail,
          replace   |-> title \o <<".">> \o year
                        \o <<".", "S", "\\", "1", "E", "\\", "2", ".">>
                        \o QualitySegment(info) \o <<".">> \o TmdbTagDir(id, KindTV)]

\* the quality segment of showBatchRegexRules' template: the videoFormat
\* generateRegexPattern returned, as it is
BatchQualitySegment(videoFormat) == videoFormat

\* showBatchRegexRules: the match pattern and the replace pattern it prints
showBatchRegexRules(prefix, suffix, title0, title, year, videoFormat, id) ==
    [pattern |-> QuoteMeta(title0) \o DirPatternTail,
     replace |-> title \o <<".">> \o year
                 \o <<".", "S", "\\", "1", "E", "\\", "2", ".">>
                 \o BatchQualitySegment(videoFormat) \o <<".">>
                 \o TmdbTagDir(id, KindTV)]

RECURSIVE DigitsEnd(_, _)
\* the offset after \d* at offset i
DigitsEnd(s, i) == IF ByteAt(s, i) \in Digit THEN DigitsEnd(s, i + 1) ELSE i

\* S\d+E\d+ at offset i: the end offset, -1 when it does not match there
SDigitsEEnd(s, i) ==
    LET a == DigitsEnd(s, i + 1)
        b == DigitsEnd(s, a + 1)
    IN  IF ByteAt(s, i) = "S" /\ a > i + 1 /\ ByteAt(s, a) = "E" /\ b > a + 1
        THEN b
        ELSE -1

\* seasonEpPattern.FindStringIndex(s) # nil
HasSeasonEp(str) ==
    Bind(str, LAMBDA s : \E i \in 0..(Len(s) - 1) : SDigitsEEnd(s, i) >= 0)

RECURSIVE ReplaceDigitRuns(_, _, _)
\* regexp.MustCompile(`\d+`).ReplaceAllString(s[i:], new)
ReplaceDigitRuns(s, i, new) ==
    IF i >= Len(s) THEN <<>>
    ELSE IF s[i + 1] \in Digit
         THEN Bind(DigitsEnd(s, i), LAMBDA e : new \o ReplaceDigitRuns(s, e, new))
         ELSE <<s[i + 1]>> \o ReplaceDigitRuns(s, i + 1, new)

\* regexp.MustCompile(`\d+`).ReplaceAllString(str, new)
ReplaceAllDigits(str, new) == Bind(str, LAMBDA s : ReplaceDigitRuns(s, 0, new))

\* \d+ as text
DigitsWildcard == <<"\\", "d", "+">>

RECURSIVE CommonFrom(_, _, _)
\* the loop of findCommonPrefixPattern from byte i on: the bytes equal in a and b
CommonFrom(a, b, i) ==
    IF i < Len(a) /\ i < Len(b) /\ a[i + 1] = b[i + 1]
    THEN <<a[i + 1]>> \o CommonFrom(a, b, i + 1)
    ELSE <<>>

findCommonPrefixPattern(a, b) ==
    IF a = b THEN a
    ELSE Bind(<<ReplaceAllDigits(a, <<"#">>), ReplaceAllDigits(b, <<"#">>)>>,
              LAMBDA ab : ReplaceAll(CommonFrom(ab[1], ab[2], 0), <<"#">>,
                                     DigitsWildcard))

NoPattern == [panic |-> FALSE, prefix |-> <<>>, suffix |-> <<>>,
              videoFormat |-> <<>>]

Panic == [panic |-> TRUE, prefix |-> <<>>, suffix |-> <<>>, videoFormat |-> <<>>]

\* strings.Index(strings.ToLower(name), strings.ToLower(title)): an offset into
\* the lower-cased name
TitleIndex(name, title) == Index(ToLower(name), ToLower(title))

RECURSIVE FoldPrefix(_, _, _, _)
\* the loop of lines 227-242 from file k on: the common prefix, or "panic"
\* when fileName[:currIdx] is out of range
FoldPrefix(fs, k, title, common) ==
    IF k > Len(fs) THEN [panic |-> FALSE, prefix |-> common]
    ELSE Bind(TitleIndex(fs[k], title), LAMBDA currIdx :
           IF currIdx = -1 THEN FoldPrefix(fs, k + 1, title, common)
           ELSE IF currIdx > Len(fs[k]) THEN [panic |-> TRUE, prefix |-> <<>>]
           ELSE Bind(findCommonPrefixPattern(common, Slice(fs[k], 0, currIdx)),
                     LAMBDA next : FoldPrefix(fs, k + 1, title, next)))

\* lines 244-251: the pattern built from the common prefix
PatternOf(commonPrefix, videoFormat) ==
    [panic |-> FALSE,
     prefix |-> ReplaceAllDigits(QuoteMeta(commonPrefix), DigitsWildcard),
     suffix |-> <<"S">> \o CaptureGroup \o <<"E">> \o CaptureGroup
                \o <<".", "*">> \o QuoteMeta(videoFormat),
     videoFormat |-> videoFormat]

\* generateRegexPattern; a slice out of range panics
generateRegexPattern(fs, title) ==
    IF Len(fs) = 0 THEN NoPattern
    ELSE Bind(TitleIndex(fs[1], title), LAMBDA idx :
           IF idx = -1 THEN NoPattern
           ELSE IF idx > Len(fs[1]) THEN Panic
           ELSE IF idx + Len(title) > Len(fs[1]) THEN Panic
           ELSE IF ~HasSeasonEp(Slice(fs[1], idx + Len(title), Len(fs[1])))
                THEN NoPattern
           ELSE Bind(FoldPrefix(fs, 2, title, Slice(fs[1], 0, idx)), LAMBDA folded :
                  IF folded.panic THEN Panic
                  ELSE PatternOf(folded.prefix, parseFileName(fs[1]).VideoFormat)))

\* main, lines 497-498: whether the batch block is printed
BatchShown(g) == g.prefix # <<>> /\ g.suffix # <<>>

-----------------------------------------------------------------------------
(* getYear *)

DaysIn(month, year) ==
    IF month \in {4, 6, 9, 11} THEN 30
    ELSE IF month # 2 THEN 31
    ELSE IF year % 4 = 0 /\ (year % 100 # 0 \/ year % 400 = 0) THEN 29
    ELSE 28

\* time.Parse("2006-01-02", d) succeeds: yyyy-mm-dd with the month and the day
\* in range
ValidDate(d) ==
    /\ Len(d) = 10
    /\ \A i \in {1, 2, 3, 4, 6, 7, 9, 10} : d[i] \in Digit
    /\ d[5] = "-" /\ d[8] = "-"
    /\ DecimalValue(SubSeq(d, 6, 7)) \in 1..12
    /\ DecimalValue(SubSeq(d, 9, 10)) >= 1
    /\ DecimalValue(SubSeq(d, 9, 10))
         <= DaysIn(DecimalValue(SubSeq(d, 6, 7)), DecimalValue(SubSeq(d, 1, 4)))

getYear(dateStr) ==
    IF dateStr = <<>> THEN <<>>
    ELSE IF ~ValidDate(dateStr) THEN <<>>
    ELSE Itoa(DecimalValue(SubSeq(dateStr, 1, 4)))

-----------------------------------------------------------------------------
(* What the user types, what the directory holds, what the provider answers *)

\* the names typed into the single-file program:
\* S02E05.1080p, S2E5, Ep34.4K, x, S00E01.hdr
SingleNames ==
    { <<"S", "0", "2", "E", "0", "5", ".", "1", "0", "8", "0", "p">>,
      <<"S", "2", "E", "5">>,
      <<"E", "p", "3", "4", ".", "4", "K">>,
      <<"x">>,
      <<"S", "0", "0", "E", "0", "1", ".", "h", "d", "r">> }

\* the file names of the directory:
\* Sh.S01E01.1080p, a.Sh.S01E02.720p, a.Sh.E03, (U+023A)Sh, 1.Sh.S02E01
DirNames ==
    { <<"S", "h", ".", "S", "0", "1", "E", "0", "1", ".", "1", "0", "8", "0", "p">>,
      <<"a", ".", "S", "h", ".", "S", "0", "1", "E", "0", "2", ".", "7", "2", "0", "p">>,
      <<"a", ".", "S", "h", ".", "E", "0", "3">>,
      <<"xC8", "xBA", "S", "h">>,
      <<"1", ".", "S", "h", ".", "S", "0", "2", "E", "0", "1">> }

\* the fixed titles typed: nothing, Sh, sh, zz
Titles == { <<>>, <<"S", "h">>, <<"s", "h">>, <<"z", "z">> }

\* the media kinds typed
Choices == { <<"1">>, <<"2">>, <<"3">>, <<>> }

\* the ids typed: 603, 0, -1, abc, nothing
IdInputs == { <<"6", "0", "3">>, <<"0">>, <<"-", "1">>, <<"a", "b", "c">>, <<>> }

\* the key the config file holds (none when it cannot be read) and the key typed
Keys == { <<>>, <<"k">> }

\* the seasons typed: 0, 00, 3, 12, -1, abc, nothing
SeasonInputs == { <<"0">>, <<"0", "0">>, <<"3">>, <<"1", "2">>, <<"-", "1">>,
                  <<"a", "b", "c">>, <<>> }

\* the episodes typed: nothing, 7, 12, abc
EpisodeInputs == { <<>>, <<"7">>, <<"1", "2">>, <<"a", "b", "c">> }

\* the offsets typed: nothing, +1, 1, -1, -2, abc
OffsetInputs == { <<>>, <<"+", "1">>, <<"1">>, <<"-", "1">>, <<"-", "2">>,
                  <<"a", "b", "c">> }

\* the qualities typed: nothing, 1080P, 4k
FormatInputs == { <<>>, <<"1", "0", "8", "0", "P">>, <<"4", "k">> }

NoMovie == [Title |-> <<>>, Name |-> <<>>, ReleaseDate |-> <<>>,
            FirstAirDate |-> <<>>, ID |-> 0]

\* the bodies the provider answers with, decoded: a full one, and an object
\* with none of the fields
Responses ==
    { [Title |-> <<"T", "t">>, Name |-> <<"N", "n">>,
       ReleaseDate |-> <<"1", "9", "9", "9", "-", "0", "3", "-", "3", "1">>,
       FirstAirDate |-> <<"2", "0", "1", "3", "-", "0", "2", "-", "3", "0">>,
       ID |-> 603],
      NoMovie }

\* how the round trip ends: http.NewRequest fails, client.Do fails,
\* io.ReadAll fails, a status other than 200, a body that is not JSON, or 200
Outcomes == {"badURL", "doError", "readError", "status", "badJSON", "ok"}

RECURSIVE SeqsUpTo(_, _)
\* the sequences of at most n members of S
SeqsUpTo(S, n) ==
    IF n = 0 THEN {<<>>}
    ELSE Bind(SeqsUpTo(S, n - 1), LAMBDA prev :
           prev \cup {Append(p, x) : p \in prev, x \in S})

\* regexp.MatchString(".*" + QuoteMeta(title) + ".*", name), for a name without
\* a newline
NameMatches(name, title) == Index(name, title) # -1

-----------------------------------------------------------------------------
(* The two programs *)

NoOut == [finalName |-> <<>>, pattern |-> <<>>, replace |-> <<>>,
          batchPattern |-> <<>>, batchReplace |-> <<>>]

NoTyped == [season |-> <<>>, episode |-> <<>>, quality |-> <<>>]

InitFor(prog) ==
    /\ program = prog
    /\ fileName = <<>>
    /\ files = <<>>
    /\ fixedTitle = <<>>
    /\ parsed = EmptyInfo
    /\ fileInfo = EmptyInfo
    /\ mediaType = ""
    /\ tmdbID = 0
    /\ apiKey = <<>>
    /\ seasonOffset = 0
    /\ manuallyInputSeason = FALSE
    /\ prompted = {}
    /\ typed = NoTyped
    /\ requests = 0
    /\ movie = NoMovie
    /\ printed = <<>>
    /\ out = NoOut
    /\ exitCode = -1
    /\ attempts = 0

Init == \E prog \in {"single", "dir"} : InitFor(prog) /\ pc = "start"

\* lines 303-305 (444-446 in the directory program): where main goes after the
\* TV prompts
AfterTV(info) == IF info.VideoFormat = <<>> THEN "askFormat" ELSE "request"

\* lines 277-300
AfterEpisode(info, manual) == IF ~manual THEN "askOffset" ELSE AfterTV(info)

\* lines 272-275
AfterSeason(info, manual) ==
    IF info.Episode = <<>> THEN "askEpisode" ELSE AfterEpisode(info, manual)

\* lines 258-259
AfterKey(kind, info) ==
    IF kind # "tv" THEN AfterTV(info)
    ELSE IF info.Season = <<>> THEN "askSeason"
    ELSE AfterSeason(info, FALSE)

\* single, lines 209-215
SingleReadFileName ==
    /\ program = "single" /\ pc = "start"
    /\ \E name \in SingleNames \cup {<<>>} :
         IF name = <<>>
         THEN /\ exitCode' = 1 /\ pc' = "exited"
              /\ UNCHANGED <<fileName, parsed, fileInfo>>
         ELSE /\ fileName' = name
              /\ \E info \in {parseFileName(name)} :
                   parsed' = info /\ fileInfo' = info
              /\ pc' = "choice"
              /\ UNCHANGED exitCode
    /\ UNCHANGED <<program, files, fixedTitle, mediaType, tmdbID, apiKey,
                   seasonOffset, manuallyInputSeason, prompted, typed, requests,
                   movie, printed, out, attempts>>

\* dir, lines 368-391: the title typed, then findMatchingFiles: an error of
\* the walk, or the files whose names hold the title
DirReadTitle ==
    /\ program = "dir" /\ pc = "start"
    /\ \E title \in Titles, walkFails \in BOOLEAN,
          fs \in SeqsUpTo(DirNames, MaxFiles) :
         /\ \A i \in 1..Len(fs) : NameMatches(fs[i], title)
         /\ IF title = <<>> \/ walkFails \/ Len(fs) = 0
            THEN /\ exitCode' = 1 /\ pc' = "exited"
                 /\ UNCHANGED <<fixedTitle, files>>
            ELSE /\ fixedTitle' = title
                 /\ files' = fs
                 /\ pc' = "choice"
                 /\ UNCHANGED exitCode
    /\ UNCHANGED <<program, fileName, parsed, fileInfo, mediaType, tmdbID, apiKey,
                   seasonOffset, manuallyInputSeason, prompted, typed, requests,
                   movie, printed, out, attempts>>

\* lines 217-231 (393-407 in the directory program)
ReadChoice ==
    /\ pc = "choice"
    /\ \E choice \in Choices :
         IF choice = <<"1">> THEN mediaType' = "movie" /\ pc' = "id" /\ UNCHANGED exitCode
         ELSE IF choice = <<"2">> THEN mediaType' = "tv" /\ pc' = "id" /\ UNCHANGED exitCode
         ELSE exitCode' = 1 /\ pc' = "exited" /\ UNCHANGED mediaType
    /\ UNCHANGED <<program, fileName, files, fixedTitle, parsed, fileInfo, tmdbID,
                   apiKey, seasonOffset, manuallyInputSeason, prompted, typed,
                   requests, movie, printed, out, attempts>>

\* the id prompt turning away only what is no number
IdRejectedOnSyntax(input) == Atoi(input).err

\* line 234 (410): the id typed is turned away
IdRejected(input) == Atoi(input).err \/ Atoi(input).val <= 0

\* lines 233-237 (409-413 in the directory program)
ReadID ==
    /\ pc = "id"
    /\ \E input \in IdInputs :
         IF IdRejected(input)
         THEN exitCode' = 1 /\ pc' = "exited" /\ UNCHANGED tmdbID
         ELSE tmdbID' = Atoi(input).val /\ pc' = "key" /\ UNCHANGED exitCode
    /\ UNCHANGED <<program, fileName, files, fixedTitle, parsed, fileInfo, mediaType,
                   apiKey, seasonOffset, manuallyInputSeason, prompted, typed,
                   requests, movie, printed, out, attempts>>

\* lines 239-254 (415-430): the key of the config file when it holds one, else
\* the key typed
KeyFrom(configKey, typedKey) == IF configKey # <<>> THEN configKey ELSE typedKey

\* single, lines 239-260
SingleReadKey ==
    /\ program = "single" /\ pc = "key"
    /\ \E configKey \in Keys, typedKey \in Keys :
         IF KeyFrom(configKey, typedKey) = <<>>
         THEN /\ exitCode' = 1 /\ pc' = "exited"
              /\ UNCHANGED <<apiKey, manuallyInputSeason>>
         ELSE /\ apiKey' = KeyFrom(configKey, typedKey)
              /\ manuallyInputSeason' = (mediaType = "tv" /\ fileInfo.Season = <<>>)
              /\ pc' = AfterKey(mediaType, fileInfo)
              /\ UNCHANGED exitCode
    /\ UNCHANGED <<program, fileName, files, fixedTitle, parsed, fileInfo, mediaType,
                   tmdbID, seasonOffset, prompted, typed, requests, movie, printed,
                   out, attempts>>

\* dir, lines 435-442: a season or an episode the parse left empty becomes "01"
DirDefaults(info, kind) ==
    IF kind # "tv" THEN info
    ELSE [info EXCEPT
            !.Season = IF info.Season = <<>> THEN <<"0", "1">> ELSE info.Season,
            !.Episode = IF info.Episode = <<>> THEN <<"0", "1">> ELSE info.Episode]

\* dir, lines 415-442
DirReadKey ==
    /\ program = "dir" /\ pc = "key"
    /\ \E configKey \in Keys, typedKey \in Keys :
         IF KeyFrom(configKey, typedKey) = <<>>
         THEN /\ exitCode' = 1 /\ pc' = "exited"
              /\ UNCHANGED <<apiKey, fileName, parsed, fileInfo>>
         ELSE /\ apiKey' = KeyFrom(configKey, typedKey)
              /\ fileName' = files[1]
              /\ \E info \in {parseFileName(files[1])} :
                   /\ parsed' = info
                   /\ fileInfo' = DirDefaults(info, mediaType)
                   /\ pc' = AfterTV(info)
              /\ UNCHANGED exitCode
    /\ UNCHANGED <<program, files, fixedTitle, mediaType, tmdbID, seasonOffset,
                   manuallyInputSeason, prompted, typed, requests, movie, printed,
                   out, attempts>>

\* single, lines 263-264: the entry is taken
SeasonAccepted(input) == ~Atoi(input).err /\ Atoi(input).val >= 0

\* single, lines 261-270: one turn of the season prompt
AskSeason ==
    /\ program = "single" /\ pc = "askSeason"
    /\ \E input \in SeasonInputs :
         /\ typed' = [typed EXCEPT !.season = input]
         /\ IF SeasonAccepted(input)
            THEN /\ fileInfo' = [fileInfo EXCEPT
                                   !.Season = ensureTwoDigits(Itoa(Atoi(input).val))]
                 /\ pc' = AfterSeason(fileInfo, manuallyInputSeason)
                 /\ UNCHANGED attempts
            ELSE /\ attempts < MaxAttempts
                 /\ attempts' = attempts + 1
                 /\ UNCHANGED <<fileInfo, pc>>
    /\ prompted' = prompted \cup {"season"}
    /\ UNCHANGED <<program, fileName, files, fixedTitle, parsed, mediaType, tmdbID,
                   apiKey, seasonOffset, manuallyInputSeason, requests, movie,
                   printed, out, exitCode>>

\* single, lines 272-275
AskEpisode ==
    /\ program = "single" /\ pc = "askEpisode"
    /\ \E input \in EpisodeInputs :
         /\ typed' = [typed EXCEPT !.episode = input]
         /\ fileInfo' = [fileInfo EXCEPT !.Episode = ensureTwoDigits(input)]
    /\ pc' = AfterEpisode(fileInfo, manuallyInputSeason)
    /\ prompted' = prompted \cup {"episode"}
    /\ UNCHANGED <<program, fileName, files, fixedTitle, parsed, mediaType, tmdbID,
                   apiKey, seasonOffset, manuallyInputSeason, requests, movie,
                   printed, out, exitCode, attempts>>

\* single, lines 291-292: the season the offset gives
OffsetSeason(season, offset) == Atoi(season).val + offset

\* the offset prompt taking a season of 0
OffsetAcceptedFromZero(newSeason) == ~(newSeason < 0)

\* single, line 293: the offset is taken
OffsetAccepted(newSeason) == ~(newSeason <= 0)

\* single, lines 278-299: one turn of the offset prompt
AskOffset ==
    /\ program = "single" /\ pc = "askOffset"
    /\ \E input \in OffsetInputs :
         IF input = <<>>
         THEN /\ pc' = AfterTV(fileInfo)
              /\ UNCHANGED <<seasonOffset, fileInfo, attempts>>
         ELSE /\ seasonOffset' = Atoi(input).val
              /\ IF /\ ~Atoi(input).err
                    /\ OffsetAccepted(OffsetSeason(fileInfo.Season, Atoi(input).val))
                 THEN /\ fileInfo' =
                           [fileInfo EXCEPT !.Season = ensureTwoDigits(
                               Itoa(OffsetSeason(fileInfo.Season, Atoi(input).val)))]
                      /\ pc' = AfterTV(fileInfo)
                      /\ UNCHANGED attempts
                 ELSE /\ attempts < MaxAttempts
                      /\ attempts' = attempts + 1
                      /\ UNCHANGED <<fileInfo, pc>>
    /\ prompted' = prompted \cup {"offset"}
    /\ UNCHANGED <<program, fileName, files, fixedTitle, parsed, mediaType, tmdbID,
                   apiKey, manuallyInputSeason, typed, requests, movie, printed,
                   out, exitCode>>

\* lines 303-305 (444-446 in the directory program)
AskFormat ==
    /\ pc = "askFormat"
    /\ \E input \in FormatInputs :
         /\ typed' = [typed EXCEPT !.quality = input]
         /\ fileInfo' = [fileInfo EXCEPT !.VideoFormat = input]
    /\ pc' = "request"
    /\ prompted' = prompted \cup {"quality"}
    /\ UNCHANGED <<program, fileName, files, fixedTitle, parsed, mediaType, tmdbID,
                   apiKey, seasonOffset, manuallyInputSeason, requests, movie,
                   printed, out, exitCode, attempts>>

\* lines 307-340 (448-481 in the directory program): the one round trip
DoRequest ==
    /\ pc = "request"
    /\ \E outcome \in Outcomes, body \in Responses :
         /\ requests' = IF outcome = "badURL" THEN requests ELSE requests + 1
         /\ IF outcome = "ok"
            THEN movie' = body /\ pc' = "show" /\ UNCHANGED exitCode
            ELSE exitCode' = 1 /\ pc' = "exited" /\ UNCHANGED movie
    /\ UNCHANGED <<program, fileName, files, fixedTitle, parsed, fileInfo, mediaType,
                   tmdbID, apiKey, seasonOffset, manuallyInputSeason, prompted,
                   typed, printed, out, attempts>>

\* lines 342-349 (483-490)
TitleOf(kind, m) == IF kind = "movie" THEN m.Title ELSE m.Name

YearOf(kind, m) ==
    IF kind = "movie" THEN getYear(m.ReleaseDate) ELSE getYear(m.FirstAirDate)

\* single, line 351: the report
SingleShow ==
    /\ program = "single" /\ pc = "show"
    /\ \E r \in {showRegexRules(fileName, TitleOf(mediaType, movie),
                               YearOf(mediaType, movie), fileInfo, mediaType,
                               movie.ID, seasonOffset)} :
         out' = [out EXCEPT !.finalName = r.finalName, !.pattern = r.pattern,
                            !.replace = r.replace]
    /\ printed' = printed \o <<"name", "find", "replace">>
    /\ pc' = "wait"
    /\ UNCHANGED <<program, fileName, files, fixedTitle, parsed, fileInfo, mediaType,
                   tmdbID, apiKey, seasonOffset, manuallyInputSeason, prompted,
                   typed, requests, movie, exitCode, attempts>>

\* dir, line 493: the report for the first file
DirShow ==
    /\ program = "dir" /\ pc = "show"
    /\ \E r \in {showRegexRulesDir(fileName, fixedTitle, TitleOf(mediaType, movie),
                                  YearOf(mediaType, movie), fileInfo, mediaType,
                                  movie.ID)} :
         out' = [out EXCEPT !.finalName = r.finalName, !.pattern = r.pattern,
                            !.replace = r.replace]
    /\ printed' = printed \o <<"name", "find", "replace">>
    /\ pc' = IF mediaType = "tv" THEN "batch" ELSE "wait"
    /\ UNCHANGED <<program, fileName, files, fixedTitle, parsed, fileInfo, mediaType,
                   tmdbID, apiKey, seasonOffset, manuallyInputSeason, prompted,
                   typed, requests, movie, exitCode, attempts>>

\* dir, lines 496-501: the batch rule; a panic of generateRegexPattern ends the
\* process with status 2
DirBatch ==
    /\ program = "dir" /\ pc = "batch"
    /\ \E g \in {generateRegexPattern(files, fixedTitle)} :
         IF g.panic
         THEN exitCode' = 2 /\ pc' = "exited" /\ UNCHANGED <<out, printed>>
         ELSE IF BatchShown(g)
         THEN /\ \E r \in {showBatchRegexRules(g.prefix, g.suffix, fixedTitle,
                               TitleOf(mediaType, movie), YearOf(mediaType, movie),
                               g.videoFormat, movie.ID)} :
                   out' = [out EXCEPT !.batchPattern = r.pattern,
                                      !.batchReplace = r.replace]
              /\ printed' = printed \o <<"batch", "usage">>
              /\ pc' = "wait"
              /\ UNCHANGED exitCode
         ELSE pc' = "wait" /\ UNCHANGED <<out, printed, exitCode>>
    /\ UNCHANGED <<program, fileName, files, fixedTitle, parsed, fileInfo, mediaType,
                   tmdbID, apiKey, seasonOffset, manuallyInputSeason, prompted,
                   typed, requests, movie, attempts>>

\* lines 353-354 (503-504): the final keypress, then main returns
WaitKey ==
    /\ pc = "wait"
    /\ exitCode' = 0
    /\ pc' = "exited"
    /\ UNCHANGED <<program, fileName, files, fixedTitle, parsed, fileInfo, mediaType,
                   tmdbID, apiKey, seasonOffset, manuallyInputSeason, prompted,
                   typed, requests, movie, printed, out, attempts>>

Next ==
    \/ SingleReadFileName
    \/ DirReadTitle
    \/ ReadChoice
    \/ ReadID
    \/ SingleReadKey
    \/ DirReadKey
    \/ AskSeason
    \/ AskEpisode
    \/ AskOffset
    \/ AskFormat
    \/ DoRequest
    \/ SingleShow
    \/ DirShow
    \/ DirBatch
    \/ WaitKey

Spec == Init /\ [][Next]_vars

-----------------------------------------------------------------------------
(* parseFileName and showRegexRules of the single-file program on their own:
   every file name made of at most MaxPieces pieces is parsed, and a rule is
   printed for it *)

\* the pieces of a file name: S2, S05, E5, E05, E123, Ep34, (U+7B2C)1(U+5B63),
\* (U+7B2C)2(U+96C6), ".", 1080p, hdr, HEVC, and the tokens S3E4,
\* (U+7B2C)3(U+5B63)(U+7B2C)4(U+96C6), "Season 1", Episode2, EP7
Pieces ==
    { <<"S", "2">>, <<"S", "0", "5">>, <<"E", "5">>, <<"E", "0", "5">>,
      <<"E", "1", "2", "3">>, <<"E", "p", "3", "4">>,
      Di \o <<"1">> \o Ji, Di \o <<"2">> \o Jji,
      <<".">>, <<"1", "0", "8", "0", "p">>, <<"h", "d", "r">>,
      <<"H", "E", "V", "C">>,
      <<"S", "3", "E", "4">>,
      Di \o <<"3">> \o Ji \o Di \o <<"4">> \o Jji,
      SeasonWord \o <<" ", "1">>, EpisodeWord \o <<"2">>,
      <<"E", "P", "7">> }

RECURSIVE Concat(_)
Concat(parts) == IF parts = <<>> THEN <<>> ELSE Head(parts) \o Concat(Tail(parts))

\* the names of at most MaxPieces pieces, the empty name left out
LibNames == {Concat(ps) : ps \in SeqsUpTo(Pieces, MaxPieces)} \ {<<>>}

\* what the provider answered in these runs
LibMovie == CHOOSE m \in Responses : m # NoMovie

InitLib == InitFor("lib") /\ pc = "start"

\* parseFileName(name)
LibParse ==
    /\ program = "lib" /\ pc = "start"
    /\ \E name \in LibNames :
         /\ fileName' = name
         /\ \E info \in {parseFileName(name)} : parsed' = info /\ fileInfo' = info
    /\ pc' = "parsed"
    /\ UNCHANGED <<program, files, fixedTitle, mediaType, tmdbID, apiKey,
                   seasonOffset, manuallyInputSeason, prompted, typed, requests,
                   movie, printed, out, exitCode, attempts>>

\* main, lines 291-297, then showRegexRules: a movie rule, a TV rule without
\* an offset, or a TV rule with the offset 1 taken at the prompt
LibShow ==
    /\ program = "lib" /\ pc = "parsed"
    /\ \E kind \in {"movie", "tv"}, offset \in {0, 1} :
         /\ kind = "movie" => offset = 0
         /\ kind = "tv" => parsed.FullMatch # <<>>
         /\ mediaType' = kind
         /\ seasonOffset' = offset
         /\ \E info \in {IF offset = 0 THEN parsed
                         ELSE [parsed EXCEPT !.Season = ensureTwoDigits(
                                   Itoa(OffsetSeason(parsed.Season, offset)))]} :
              /\ fileInfo' = info
              /\ \E r \in {showRegexRules(fileName, TitleOf(kind, LibMovie),
                                         YearOf(kind, LibMovie), info, kind,
                                         LibMovie.ID, offset)} :
                   out' = [out EXCEPT !.finalName = r.finalName,
                                      !.pattern = r.pattern,
                                      !.replace = r.replace]
    /\ movie' = LibMovie
    /\ printed' = printed \o <<"name", "find", "replace">>
    /\ pc' = "shown"
    /\ UNCHANGED <<program, fileName, files, fixedTitle, parsed, tmdbID, apiKey,
                   manuallyInputSeason, prompted, typed, requests, exitCode,
                   attempts>>

NextLib ==
    \/ LibParse
    \/ LibShow

SpecLib == InitLib /\ [][NextLib]_vars

-----------------------------------------------------------------------------
(* The properties *)

\* the members of a sequence
Range(seq) == {seq[i] : i \in 1..Len(seq)}

\* strings.HasSuffix
HasSuffix(s, suffix) ==
    Len(s) >= Len(suffix) /\ Slice(s, Len(s) - Len(suffix), Len(s)) = suffix

RECURSIVE CountFrom(_, _, _)
\* strings.Count(s[i:], sub), sub not empty
CountFrom(s, i, sub) ==
    IF i + Len(sub) > Len(s) THEN 0
    ELSE IF HasAt(s, i, sub) THEN 1 + CountFrom(s, i + Len(sub), sub)
    ELSE CountFrom(s, i + 1, sub)

\* the capture groups of a find pattern: QuoteMeta escapes every parenthesis
\* of the name, so the only groups are the ones written in
Groups(pattern) == CountFrom(pattern, 0, CaptureGroup)

\* the highest \k of a replace template, 0 when it has none
HighestBackRef(template) ==
    LET ks == {k \in 1..9 : \E i \in 1..(Len(template) - 1) :
                 template[i] = "\\" /\ template[i + 1] = DigitSeq[k + 1]}
    IN  IF ks = {} THEN 0 ELSE CHOOSE k \in ks : \A j \in ks : j <= k

\* a rule for a TV file has been printed by showRegexRules on its own
LibTVShown == program = "lib" /\ pc = "shown" /\ mediaType = "tv"

\* parseFileName has returned
LibParsed == program = "lib" /\ pc \in {"parsed", "shown"}

\* C1: a TV rule of the single-file program made from a parsed FileInfo with a
\* FullMatch has two capture groups and S\1E\2 when the offset is 0 and the
\* season is not "01", one capture group and S<Season>E\1 otherwise, and in
\* all cases as many capture groups in the find pattern as the highest
\* back-reference of the replace template
C1_GroupsMatchBackRefs ==
    LibTVShown =>
      /\ Groups(out.pattern) = HighestBackRef(out.replace)
      /\ HighestBackRef(out.replace) =
           IF seasonOffset = 0 /\ fileInfo.Season # <<"0", "1">> THEN 2 ELSE 1

\* the first S<digits>E<digits> token of the file name: its offsets
FirstToken ==
    LET i == Min({j \in 0..(Len(fileName) - 1) : SDigitsEEnd(fileName, j) >= 0})
    IN  [start |-> i, e |-> DigitsEnd(fileName, i + 1),
         end |-> SDigitsEEnd(fileName, i)]

\* C2: for a file name with an S<digits>E<digits> token, parseFileName returns
\* the token's whole season digits and whole episode digits, a single digit
\* padded with "0" and anything longer untouched, and the token's exact span
\* as FullMatch
C2_WholeDigits ==
    (LibParsed /\ HasSeasonEp(fileName)) =>
      /\ parsed.Season = ensureTwoDigits(Slice(fileName, FirstToken.start + 1,
                                               FirstToken.e))
      /\ parsed.Episode = ensureTwoDigits(Slice(fileName, FirstToken.e + 1,
                                                FirstToken.end))
      /\ parsed.FullMatch = Slice(fileName, FirstToken.start, FirstToken.end)

\* C3: VideoFormat is what the scan gives when every token of the vocabulary
\* is recognised whatever its case: all the occurrences at word boundaries, in
\* order, in upper case, HEVC and H265 dropped, joined with "."
C3_AnyCase == LibParsed => parsed.VideoFormat = VideoFormatOf(ToUpper(fileName))

\* exactly two decimal digits
TwoDigits(str) == Len(str) = 2 /\ str[1] \in Digit /\ str[2] \in Digit

\* C10: Season, Episode and FullMatch are all empty, exactly when no rule of
\* either list matches, or all non-empty; an Episode comes with a Season, which
\* is "01" when an episode-only rule gave the match; a Season or an Episode
\* that is present is exactly two decimal digits
C10_FileInfoShape ==
    LibParsed =>
      LET none == SeasonEpisodeRule(fileName) = 0 /\ EpisodeOnlyRule(fileName) = 0
      IN  /\ none => /\ parsed.Season = <<>>
                     /\ parsed.Episode = <<>>
                     /\ parsed.FullMatch = <<>>
          /\ ~none => /\ parsed.Season # <<>>
                      /\ parsed.Episode # <<>>
                      /\ parsed.FullMatch # <<>>
          /\ parsed.Episode # <<>> => parsed.Season # <<>>
          /\ (SeasonEpisodeRule(fileName) = 0 /\ EpisodeOnlyRule(fileName) # 0)
               => parsed.Season = <<"0", "1">>
          /\ parsed.Season # <<>> => TwoDigits(parsed.Season)
          /\ parsed.Episode # <<>> => TwoDigits(parsed.Episode)

\* C10 happens: a name no rule matches has been parsed, one an episode-only
\* rule matches, and one with single digits after S and E
C10_Parsed ==
    /\ LibParsed
    /\ SeasonEpisodeRule(fileName) = 1
    /\ parsed.FullMatch = <<"S", "2", "E", "5">>
    /\ parsed.Season = <<"0", "2">>
    /\ parsed.Episode = <<"0", "5">>

\* the kind as the tags spell it
KindText == IF mediaType = "movie" THEN KindMovie ELSE KindTV

\* the tag that ends the templates of the program running
TagOf(kind) ==
    IF program = "dir" THEN TmdbTagDir(movie.ID, kind) ELSE TmdbTag(movie.ID, kind)

\* C4: in every replace template printed (the movie rule, the TV rule, the
\* batch TV rule of the directory program) the quality segment is the quality,
\* parsed or typed, in lower case
C4_QualityLowercased ==
    /\ "replace" \in Range(printed) =>
         HasSuffix(out.replace, <<".">> \o ToLower(fileInfo.VideoFormat)
                                \o <<".">> \o TagOf(KindText))
    /\ "batch" \in Range(printed) =>
         HasSuffix(out.batchReplace, <<".">> \o ToLower(parsed.VideoFormat)
                                     \o <<".">> \o TagOf(KindTV))

\* the single-file program is about to call showRegexRules for a TV file
SingleTVShow == program = "single" /\ mediaType = "tv" /\ pc = "show"

\* decimal digits, at least one
Decimal(str) == str # <<>> /\ \A i \in 1..Len(str) : str[i] \in Digit

\* the offset prompt has taken an offset that moved the season
OffsetTaken == ~manuallyInputSeason /\ fileInfo.Season # parsed.Season

\* the template holds S<Season>E\1
SeasonThenGroup(template, season) ==
    Index(template, <<"S">> \o season \o <<"E", "\\", "1">>) # -1

\* C5 as stated: the season handed to showRegexRules in a TV run of the
\* single-file program is a decimal string of at least two digits whose
\* value is at least 1
C5_SeasonPositive ==
    SingleTVShow =>
      /\ Len(fileInfo.Season) >= 2
      /\ Decimal(fileInfo.Season)
      /\ DecimalValue(fileInfo.Season) >= 1

\* C5: the season handed to showRegexRules in a TV run of the single-file
\* program is a decimal string of at least two digits; its value is 0 only
\* when 0 was typed at the season prompt, or when the file name gave 00 and
\* no offset was taken; an offset k that is taken turns the parsed season s
\* into s+k, at least 1 and padded to two digits, and the replace template
\* then holds S<s+k>E\1
C5_SeasonHanded ==
    /\ SingleTVShow =>
         /\ Len(fileInfo.Season) >= 2
         /\ Decimal(fileInfo.Season)
         /\ DecimalValue(fileInfo.Season) = 0 =>
              \/ manuallyInputSeason /\ Atoi(typed.season).val = 0
              \/ /\ ~manuallyInputSeason
                 /\ parsed.Season = <<"0", "0">>
                 /\ fileInfo.Season = parsed.Season
         /\ OffsetTaken =>
              /\ DecimalValue(fileInfo.Season) >= 1
              /\ fileInfo.Season =
                   ensureTwoDigits(Itoa(DecimalValue(parsed.Season) + seasonOffset))
    /\ (program = "single" /\ mediaType = "tv" /\ pc = "wait" /\ OffsetTaken) =>
         /\ SeasonThenGroup(out.replace, fileInfo.Season)
         /\ HighestBackRef(out.replace) = 1

\* C5 happens: S02 was parsed, the offset +1 was taken, and the rule was
\* printed with S03E\1
C5_OffsetApplied ==
    /\ program = "single" /\ mediaType = "tv" /\ pc = "wait"
    /\ parsed.Season = <<"0", "2">>
    /\ seasonOffset = 1
    /\ fileInfo.Season = <<"0", "3">>
    /\ SeasonThenGroup(out.replace, <<"0", "3">>)

\* C6: in a TV run of either program, a season, an episode or a quality that
\* parsing the file name left empty has been asked for, and nothing else has,
\* by the time the request is issued, and the quality typed is the one used
C6_PromptsForMissing ==
    (mediaType = "tv" /\ pc \in {"request", "show", "batch", "wait"}) =>
      /\ parsed.Season = <<>> <=> "season" \in prompted
      /\ parsed.Episode = <<>> <=> "episode" \in prompted
      /\ parsed.VideoFormat = <<>> <=> "quality" \in prompted
      /\ "quality" \in prompted => fileInfo.VideoFormat = typed.quality
      /\ "episode" \in prompted => fileInfo.Episode = ensureTwoDigits(typed.episode)

\* C7: nothing of the report is printed in a run that ends with a status other
\* than 0, and a run that prints the name prints the find pattern and the
\* replace template as well and ends with status 0
C7_NoPartialOutput ==
    /\ (pc = "exited" /\ exitCode # 0) => printed = <<>>
    /\ "name" \in Range(printed) => {"find", "replace"} \subseteq Range(printed)
    /\ (pc = "exited" /\ printed # <<>>) => exitCode = 0

\* C8: at most one request is issued, and only once a file (single-file
\* program) or a title with at least one matching file (directory program), a
\* kind of 1 or 2, a positive id and a key have been taken; a run that stops at
\* an input, a scan with no matching file among them, ends with status 1
\* without a request
C8_OneRequestAfterInputs ==
    /\ requests <= 1
    /\ requests = 1 =>
         /\ mediaType \in {"movie", "tv"}
         /\ tmdbID > 0
         /\ apiKey # <<>>
         /\ program = "dir" => Len(files) >= 1 /\ fixedTitle # <<>>
         /\ program = "single" => fileName # <<>>
    /\ (program = "dir" /\ pc # "start" /\ files = <<>>) =>
         pc = "exited" /\ exitCode = 1 /\ requests = 0
    /\ (pc = "exited" /\ (mediaType = "" \/ tmdbID <= 0 \/ apiKey = <<>>)) =>
         exitCode = 1 /\ requests = 0

\* C8 happens: the directory program has issued its request and has the answer
C8_Requested ==
    /\ program = "dir" /\ pc = "show"
    /\ requests = 1
    /\ Len(files) >= 1
    /\ tmdbID > 0

\* C9: in a TV run of the directory program that reaches the end of its
\* output, the batch block was printed exactly when the title occurs in the
\* first file's name, whatever the case and wherever it stands, and the text
\* after it holds S<digits>E<digits>
C9_BatchIffTitleAndSpan ==
    (program = "dir" /\ mediaType = "tv" /\ pc = "wait") =>
      LET idx == TitleIndex(files[1], fixedTitle)
          after == idx + Len(fixedTitle)
      IN  "batch" \in Range(printed) <=>
            /\ idx # -1
            /\ after <= Len(files[1])
            /\ HasSeasonEp(Slice(files[1], after, Len(files[1])))

\* the season+episode rules, in the order of the list, that match somewhere in
\* the file name
SeasonEpisodeHits == {k \in 1..3 : SeasonEpisodeMatch(fileName, k).ok}

\* the episode-only rules, in the order of the list, that match somewhere in
\* the file name
EpisodeOnlyHits == {k \in 1..6 : EpisodeOnlyMatch(fileName, k).ok}

\* C11: the FileInfo comes from the first season+episode rule, in the order of
\* the list, that matches anywhere in the file name, wherever the tokens of
\* the other rules stand; the episode-only rules count only when no
\* season+episode rule matches, and then the first of them, in the order of
\* the list, that matches gives Episode and FullMatch
C11_FirstMatchWins ==
    LibParsed =>
      IF SeasonEpisodeHits # {}
      THEN LET m == SeasonEpisodeMatch(fileName, Min(SeasonEpisodeHits))
           IN  /\ parsed.Season = ensureTwoDigits(m.g1)
               /\ parsed.Episode = ensureTwoDigits(m.g2)
               /\ parsed.FullMatch = Slice(fileName, m.start, m.end)
      ELSE IF EpisodeOnlyHits # {}
      THEN LET m == EpisodeOnlyMatch(fileName, Min(EpisodeOnlyHits))
           IN  /\ parsed.Episode = ensureTwoDigits(m.g1)
               /\ parsed.FullMatch = Slice(fileName, m.start, m.end)
      ELSE parsed.Episode = <<>> /\ parsed.FullMatch = <<>>

\* C11 happens: the name holds the token of the second rule and, after it,
\* the token of the first, and the parse took the first rule's
C11_LaterTokenWins ==
    /\ LibParsed
    /\ {1, 2} \subseteq SeasonEpisodeHits
    /\ SeasonEpisodeMatch(fileName, 2).start < SeasonEpisodeMatch(fileName, 1).start
    /\ parsed.FullMatch = <<"S", "3", "E", "4">>
    /\ parsed.Season = <<"0", "3">>
    /\ parsed.Episode = <<"0", "4">>

\* C12: when the single-file program calls showRegexRules for a TV file whose
\* season came from the file name, seasonOffset is the value of the Season
\* passed minus the value of the season parsed; so after an empty line at the
\* offset prompt, whatever was turned away before it, seasonOffset is 0 and the
\* Season is the parsed one
C12_OffsetIsDifference ==
    (SingleTVShow /\ ~manuallyInputSeason) =>
      seasonOffset = DecimalValue(fileInfo.Season) - DecimalValue(parsed.Season)

=============================================================================
